---- MODULE Spec2Model ----
(***************************************************************************)
(* A model of extensions::SystemInfoProvider<T>                            *)
(* (chrome/browser/extensions/api/system_info/system_info_provider.h):     *)
(* the callback queue and the is_waiting_for_completion_ flag kept on the  *)
(* UI thread, the QueryInfo task run on the sequenced worker pool, the     *)
(* reply that brings its result back to the UI thread, the shared instance *)
(* held in provider_, and OnQueryCompleted's loop on its own.              *)
(* Three smaller classes are modelled beside it, each with its own         *)
(* specification: content::PepperFileRefHost, diagnostics::                *)
(* SqliteIntegrityTest and the SDK's AutoLock.                             *)
(***************************************************************************)
EXTENDS Integers, Sequences, FiniteSets, TLC

\* Bounds of the model.
MaxCalls == 4          \* StartQueryInfo calls made in one behaviour
MaxGetCalls == 4       \* GetInstance calls begun in one behaviour
MaxLoopQueue == 4      \* callbacks queued at one time in the loop model
MaxRows == 4           \* rows one PRAGMA integrity_check delivers
MaxUnlocks == 4        \* Unlock() calls made on one AutoLock

\* The callbacks callers pass; two calls may pass the same one.
CallbackIds == {"A", "B"}
\* The threads GetInstance is called from.
Callers == {"t1", "t2"}

VARIABLES
  \* ---- SystemInfoProvider<T> fields
  callbacks_,                   \* CallbackQueue: ids of the calls whose callback waits
  is_waiting_for_completion_,   \* bool
  info_,                        \* T: the number of the QueryInfo run that last wrote it
  \* ---- the continuation handed to InitializeProvider, the worker pool, the reply
  initPending,                  \* an override holds do_query_info_callback, not yet run
  task,                         \* the QueryInfo task: none, posted, running, refused, dropped
  reply,                        \* <<>> or <<result>>: OnQueryCompleted bound to the result
  shutdown,                     \* the blocking pool has been shut down
  \* ---- the UI thread's position inside OnQueryCompleted
  uiPc,                         \* idle, drain (at the loop test), callback (inside Run)
  success,                      \* OnQueryCompleted's parameter
  \* ---- what has happened so far (observation only)
  calls,                        \* one record per StartQueryInfo call, in call order
  invoked,                      \* one record per callback.Run, in invocation order
  results,                      \* the values QueryInfo returned, in order
  dispatched,                   \* QueryInfo tasks the pool accepted
  triggers,                     \* InitializeProvider invocations
  prepared,                     \* PrepareQueryOnUIThread invocations
  delivered,                    \* OnQueryCompleted invocations
  infoReads,                    \* how info_ was read on the UI thread: flag and worker then
  queuedLate,                   \* queued calls made outside a drain after QueryInfo returned
  \* ---- the shared instance and the GetInstance calls in progress
  provider_,                    \* <<>> (NULL) or the instance held
  constructed,                  \* number of `new I()` executed
  giPc,                         \* per caller: out, checked_null, checked_set
  returned,                     \* the instances GetInstance calls returned, in order
  getCalls,                     \* GetInstance calls begun
  raced,                        \* a GetInstance call began while another was in progress
  substituted,                  \* InitializeForTesting has run
  preinstalled,                 \* the instance installed last before the first GetInstance
  lateInstall,                  \* InitializeForTesting has run after a GetInstance began
  \* ---- OnQueryCompleted's loop alone, callbacks free to call back without end
  loopQueue,                    \* callbacks_: the callbacks waiting
  loopWaiting,                  \* is_waiting_for_completion_
  loopPc,                       \* idle, drain, callback
  loopReentered,                \* a callback of the running drain has called StartQueryInfo
  \* ---- content::PepperFileRefHost and the last resource message it handled
  pepperPc,                     \* unconstructed, constructed
  backend_,                     \* none (null scoped_ptr), internal, external
  fs_type_,                     \* PP_FileSystemType
  hostPrivate,                  \* host_'s permissions hold PERMISSION_PRIVATE
  pepperMsg,                    \* the message handled last
  pepperChecks,                 \* the HasPermissions calls made for it, with their results
  backendCalls,                 \* the backend operations called for it
  pepperResult,                 \* what OnResourceMessageReceived returned
  \* ---- diagnostics::SqliteIntegrityTest and one run of ExecuteImpl
  sqlPc,                        \* unconstructed, constructed, open, prepare, step, done
  critical_,                    \* bool
  errors,                       \* int errors: rows counted as not "ok"
  has_error_,                   \* ErrorRecorder::has_error_
  outcomes,                     \* the RecordOutcome/RecordFailure/RecordSuccess calls made
  sqlReturn,                    \* <<>> or <<the value ExecuteImpl returned>>
  pathExisted,                  \* what base::PathExists answered
  openedOk,                     \* what database.Open answered
  statementState,               \* none, valid, SQLITE_BUSY, SQLITE_ERROR
  rowsSeen,                     \* the integrity_check rows Step delivered, in order
  \* ---- one AutoLock per thread, all on the same SimpleLock
  autoPc,                       \* per thread: unconstructed, alive, destroyed
  lock_,                        \* per thread: the AutoLock's pthread_mutex_t*, or NULL
  mutexOwner,                   \* the thread that holds the mutex, or none
  lockCalls,                    \* per thread: pthread_mutex_lock calls made
  unlockCalls,                  \* per thread: who called pthread_mutex_unlock, in order
  unlocksInvoked                \* per thread: Unlock() calls made

coordVars == <<callbacks_, is_waiting_for_completion_, info_, initPending, task,
               reply, shutdown, uiPc, success, calls, invoked, results,
               dispatched, triggers, prepared, delivered, infoReads,
               queuedLate>>
registryVars == <<provider_, constructed, giPc, returned, getCalls, raced,
                  substituted, preinstalled, lateInstall>>
loopVars == <<loopQueue, loopWaiting, loopPc, loopReentered>>
pepperVars == <<pepperPc, backend_, fs_type_, hostPrivate, pepperMsg,
                pepperChecks, backendCalls, pepperResult>>
sqlVars == <<sqlPc, critical_, errors, has_error_, outcomes, sqlReturn,
             pathExisted, openedOk, statementState, rowsSeen>>
autoLockVars == <<autoPc, lock_, mutexOwner, lockCalls, unlockCalls,
                  unlocksInvoked>>
vars == <<coordVars, registryVars, loopVars, pepperVars, sqlVars, autoLockVars>>

\* What the operations of one part leave alone.
outsideCoord == <<registryVars, loopVars, pepperVars, sqlVars, autoLockVars>>
outsideRegistry == <<coordVars, loopVars, pepperVars, sqlVars, autoLockVars>>
outsideLoop == <<coordVars, registryVars, pepperVars, sqlVars, autoLockVars>>
outsidePepper == <<coordVars, registryVars, loopVars, sqlVars, autoLockVars>>
outsideSql == <<coordVars, registryVars, loopVars, pepperVars, autoLockVars>>
outsideAutoLock == <<coordVars, registryVars, loopVars, pepperVars, sqlVars>>

-----------------------------------------------------------------------------
\* Faulty variant: push at the front of the queue.
Push_Front(q, x) == <<x>> \o q

\* std::queue operations used by the provider.
Push(q, x) == Append(q, x)
Front(q) == Head(q)
Pop(q) == Tail(q)

NULL == <<>>
NoReply == <<>>

\* Number of QueryInfo executions begun so far.
started == Len(results) + (IF task = "running" THEN 1 ELSE 0)

\* The constructor: is_waiting_for_completion_(false), empty queue.
CoordInit ==
  /\ callbacks_ = <<>>
  /\ is_waiting_for_completion_ = FALSE
  /\ info_ = 0
  /\ initPending = FALSE
  /\ task = "none"
  /\ reply = NoReply
  /\ shutdown = FALSE
  /\ uiPc = "idle"
  /\ success = FALSE
  /\ calls = <<>>
  /\ invoked = <<>>
  /\ results = <<>>
  /\ dispatched = 0
  /\ triggers = 0
  /\ prepared = 0
  /\ delivered = 0
  /\ infoReads = {}
  /\ queuedLate = {}

\* The static provider_ before any use: a null scoped_refptr.
RegistryInit ==
  /\ provider_ = NULL
  /\ constructed = 0
  /\ giPc = [t \in Callers |-> "out"]
  /\ returned = <<>>
  /\ getCalls = 0
  /\ raced = FALSE
  /\ substituted = FALSE
  /\ preinstalled = NULL
  /\ lateInstall = FALSE

\* The loop model starts from a constructed provider as well.
LoopInit ==
  /\ loopQueue = <<>>
  /\ loopWaiting = FALSE
  /\ loopPc = "idle"
  /\ loopReentered = FALSE

\* No PepperFileRefHost has been constructed yet.
PepperInit ==
  /\ pepperPc = "unconstructed"
  /\ backend_ = "none"
  /\ fs_type_ = "PP_FILESYSTEMTYPE_INVALID"
  /\ hostPrivate = FALSE
  /\ pepperMsg = "none"
  /\ pepperChecks = <<>>
  /\ backendCalls = <<>>
  /\ pepperResult = "none"

\* No SqliteIntegrityTest has been made yet.
SqlInit ==
  /\ sqlPc = "unconstructed"
  /\ critical_ = FALSE
  /\ errors = 0
  /\ has_error_ = FALSE
  /\ outcomes = <<>>
  /\ sqlReturn = <<>>
  /\ pathExisted = FALSE
  /\ openedOk = FALSE
  /\ statementState = "none"
  /\ rowsSeen = <<>>

\* The threads that take the lock, each in a scope with one AutoLock.
LockThreads == {"t1", "t2"}

\* No AutoLock exists yet; the mutex is free.
AutoLockInit ==
  /\ autoPc = [t \in LockThreads |-> "unconstructed"]
  /\ lock_ = [t \in LockThreads |-> <<>>]
  /\ mutexOwner = "none"
  /\ lockCalls = [t \in LockThreads |-> 0]
  /\ unlockCalls = [t \in LockThreads |-> <<>>]
  /\ unlocksInvoked = [t \in LockThreads |-> 0]

Init ==
  CoordInit /\ RegistryInit /\ LoopInit /\ PepperInit /\ SqlInit /\ AutoLockInit

-----------------------------------------------------------------------------
\* PostTaskAndReplyWithResult on worker_pool_: the pool accepts the task unless
\* it has been shut down; the return value is not looked at.
PostTaskAndReplyWithResult ==
  IF shutdown
    THEN task' = "refused" /\ dispatched' = dispatched
    ELSE task' = "posted" /\ dispatched' = dispatched + 1

\* Faulty variant: the task is posted without PrepareQueryOnUIThread.
StartQueryInfoPostInitialization_NoPrepare ==
  /\ prepared' = prepared
  /\ PostTaskAndReplyWithResult

\* StartQueryInfoPostInitialization: PrepareQueryOnUIThread, then the post.
StartQueryInfoPostInitialization ==
  /\ prepared' = prepared + 1
  /\ PostTaskAndReplyWithResult

\* Faulty variant: an override runs do_query_info_callback at once and keeps
\* it to run it a second time.
InitializeProvider_RunsTwice ==
  /\ triggers' = triggers + 1
  /\ initPending' = TRUE
  /\ StartQueryInfoPostInitialization

\* InitializeProvider: the default runs do_query_info_callback at once; an
\* override may keep it and run it later from another UI-thread task.
InitializeProvider ==
  /\ triggers' = triggers + 1
  /\ \E deferredByOverride \in BOOLEAN :
       IF deferredByOverride
         THEN initPending' = TRUE /\ UNCHANGED <<task, dispatched, prepared>>
         ELSE initPending' = FALSE /\ StartQueryInfoPostInitialization

\* A call made outside a drain while a result QueryInfo has returned is not
\* yet delivered is marked, for as long as its callback is queued.
QueuedLateAfterCall ==
  IF uiPc = "idle" /\ Len(results) > delivered
    THEN queuedLate \cup {Len(calls) + 1}
    ELSE queuedLate

\* Faulty variant: no test of is_waiting_for_completion_, every call starts a query.
StartQueryInfo_NoCoalesce(cb) ==
  /\ uiPc \in {"idle", "callback"}
  /\ Len(calls) < MaxCalls
  /\ calls' = Append(calls, [epoch |-> delivered,
                             reentrant |-> (uiPc = "callback"),
                             cb |-> cb])
  /\ callbacks_' = Push(callbacks_, Len(calls) + 1)
  /\ is_waiting_for_completion_' = TRUE
  /\ InitializeProvider
  /\ UNCHANGED <<info_, reply, shutdown, uiPc, success, invoked, results,
                 delivered>>
  /\ UNCHANGED infoReads
  /\ queuedLate' = QueuedLateAfterCall
  /\ UNCHANGED outsideCoord

\* Faulty variant: a callback that is already queued is not queued again.
StartQueryInfo_Dedup(cb) ==
  /\ uiPc \in {"idle", "callback"}
  /\ Len(calls) < MaxCalls
  /\ calls' = Append(calls, [epoch |-> delivered,
                             reentrant |-> (uiPc = "callback"),
                             cb |-> cb])
  /\ callbacks_' = IF \E n \in DOMAIN callbacks_ : calls[callbacks_[n]].cb = cb
                     THEN callbacks_
                     ELSE Push(callbacks_, Len(calls) + 1)
  /\ IF is_waiting_for_completion_
       THEN UNCHANGED <<is_waiting_for_completion_, initPending, task,
                        dispatched, triggers, prepared>>
       ELSE /\ is_waiting_for_completion_' = TRUE
            /\ InitializeProvider
  /\ UNCHANGED <<info_, reply, shutdown, uiPc, success, invoked, results,
                 delivered>>
  /\ UNCHANGED infoReads
  /\ queuedLate' = QueuedLateAfterCall
  /\ UNCHANGED outsideCoord

\* Faulty variant: the flag is tested first and the callback queued only on
\* the path that returns early.
StartQueryInfo_PushOnlyWhenWaiting(cb) ==
  /\ uiPc \in {"idle", "callback"}
  /\ Len(calls) < MaxCalls
  /\ calls' = Append(calls, [epoch |-> delivered,
                             reentrant |-> (uiPc = "callback"),
                             cb |-> cb])
  /\ IF is_waiting_for_completion_
       THEN /\ callbacks_' = Push(callbacks_, Len(calls) + 1)
            /\ UNCHANGED <<is_waiting_for_completion_, initPending, task,
                           dispatched, triggers, prepared>>
       ELSE /\ callbacks_' = callbacks_
            /\ is_waiting_for_completion_' = TRUE
            /\ InitializeProvider
  /\ UNCHANGED <<info_, reply, shutdown, uiPc, success, invoked, results,
                 delivered>>
  /\ UNCHANGED infoReads
  /\ queuedLate' = QueuedLateAfterCall
  /\ UNCHANGED outsideCoord

\* Faulty variant: with a result already cached and no query under way the
\* callback is run at once instead of being queued.
StartQueryInfo_RunsCached(cb) ==
  /\ uiPc \in {"idle", "callback"}
  /\ Len(calls) < MaxCalls
  /\ calls' = Append(calls, [epoch |-> delivered,
                             reentrant |-> (uiPc = "callback"),
                             cb |-> cb])
  /\ IF ~is_waiting_for_completion_ /\ delivered > 0
       THEN /\ invoked' = Append(invoked, [id |-> Len(calls) + 1,
                                           success |-> TRUE,
                                           drain |-> delivered])
            /\ UNCHANGED <<callbacks_, is_waiting_for_completion_,
                           initPending, task, dispatched, triggers, prepared>>
       ELSE /\ callbacks_' = Push(callbacks_, Len(calls) + 1)
            /\ invoked' = invoked
            /\ IF is_waiting_for_completion_
                 THEN UNCHANGED <<is_waiting_for_completion_, initPending,
                                  task, dispatched, triggers, prepared>>
                 ELSE /\ is_waiting_for_completion_' = TRUE
                      /\ InitializeProvider
  /\ UNCHANGED <<info_, reply, shutdown, uiPc, success, results, delivered>>
  /\ UNCHANGED infoReads
  /\ queuedLate' = QueuedLateAfterCall
  /\ UNCHANGED outsideCoord

\* StartQueryInfo(callback), called on the UI thread: from a task of its own
\* (uiPc = "idle") or from inside a callback that OnQueryCompleted is running.
StartQueryInfo(cb) ==
  /\ uiPc \in {"idle", "callback"}
  /\ Len(calls) < MaxCalls
  /\ calls' = Append(calls, [epoch |-> delivered,
                             reentrant |-> (uiPc = "callback"),
                             cb |-> cb])
  /\ callbacks_' = Push(callbacks_, Len(calls) + 1)
  /\ IF is_waiting_for_completion_
       THEN UNCHANGED <<is_waiting_for_completion_, initPending, task,
                        dispatched, triggers, prepared>>
       ELSE /\ is_waiting_for_completion_' = TRUE
            /\ InitializeProvider
  /\ UNCHANGED <<info_, reply, shutdown, uiPc, success, invoked, results,
                 delivered>>
  /\ UNCHANGED infoReads
  /\ queuedLate' = QueuedLateAfterCall
  /\ UNCHANGED outsideCoord

\* An InitializeProvider override runs the continuation it kept.
RunDoQueryInfoCallback ==
  /\ uiPc = "idle"
  /\ initPending
  /\ initPending' = FALSE
  /\ StartQueryInfoPostInitialization
  /\ UNCHANGED <<callbacks_, is_waiting_for_completion_, info_, reply, shutdown,
                 uiPc, success, calls, invoked, results, triggers, delivered>>
  /\ UNCHANGED <<infoReads, queuedLate>>
  /\ UNCHANGED outsideCoord

\* The worker pool starts the posted task: QueryInfo begins to fill info_.
QueryInfoBegin ==
  /\ task = "posted"
  /\ task' = "running"
  /\ info_' = started + 1
  /\ UNCHANGED <<callbacks_, is_waiting_for_completion_, initPending, reply,
                 shutdown, uiPc, success, calls, invoked, results, dispatched,
                 triggers, prepared, delivered>>
  /\ UNCHANGED <<infoReads, queuedLate>>
  /\ UNCHANGED outsideCoord

\* QueryInfo returns; the reply bound to its result is posted to the UI thread.
QueryInfoEnd(r) ==
  /\ task = "running"
  /\ task' = "none"
  /\ results' = Append(results, r)
  /\ reply' = <<r>>
  /\ UNCHANGED <<callbacks_, is_waiting_for_completion_, info_, initPending,
                 shutdown, uiPc, success, calls, invoked, dispatched, triggers,
                 prepared, delivered>>
  /\ UNCHANGED <<infoReads, queuedLate>>
  /\ UNCHANGED outsideCoord

\* The blocking pool shuts down. CONTINUE_ON_SHUTDOWN: a task that has not
\* started is deleted without running, a running one is left to finish.
Shutdown ==
  /\ ~shutdown
  /\ shutdown' = TRUE
  /\ task' = IF task = "posted" THEN "dropped" ELSE task
  /\ UNCHANGED <<callbacks_, is_waiting_for_completion_, info_, initPending,
                 reply, uiPc, success, calls, invoked, results, dispatched,
                 triggers, prepared, delivered>>
  /\ UNCHANGED <<infoReads, queuedLate>>
  /\ UNCHANGED outsideCoord

\* Faulty variant: the flag is cleared on entry, before the queue is drained.
OnQueryCompletedBegin_ClearsFlag ==
  /\ uiPc = "idle"
  /\ reply # NoReply
  /\ success' = reply[1]
  /\ reply' = NoReply
  /\ uiPc' = "drain"
  /\ delivered' = delivered + 1
  /\ is_waiting_for_completion_' = FALSE
  /\ UNCHANGED <<callbacks_, info_, initPending, task, shutdown, calls, invoked,
                 results, dispatched, triggers, prepared>>
  /\ UNCHANGED <<infoReads, queuedLate>>
  /\ UNCHANGED outsideCoord

\* OnQueryCompleted(success) is entered on the UI thread.
OnQueryCompletedBegin ==
  /\ uiPc = "idle"
  /\ reply # NoReply
  /\ success' = reply[1]
  /\ reply' = NoReply
  /\ uiPc' = "drain"
  /\ delivered' = delivered + 1
  /\ UNCHANGED <<callbacks_, is_waiting_for_completion_, info_, initPending,
                 task, shutdown, calls, invoked, results, dispatched, triggers,
                 prepared>>
  /\ UNCHANGED <<infoReads, queuedLate>>
  /\ UNCHANGED outsideCoord

\* Faulty variant: the callbacks are told the query succeeded whatever it returned.
RunArgument_AlwaysTrue == TRUE

\* The value handed to callback.Run.
RunArgument == success

\* A completion callback looks at info_, whose validity its argument tells:
\* the read is recorded with the flag and the worker's state at that moment.
InfoRead == [waiting |-> is_waiting_for_completion_,
             writing |-> (task = "running")]

\* Loop body, first half: callback = callbacks_.front(); callback.Run(success).
RunCallback ==
  /\ uiPc = "drain"
  /\ callbacks_ # <<>>
  /\ invoked' = Append(invoked, [id |-> Front(callbacks_),
                                 success |-> RunArgument,
                                 drain |-> delivered])
  /\ infoReads' = infoReads \cup {InfoRead}
  /\ UNCHANGED queuedLate
  /\ uiPc' = "callback"
  /\ UNCHANGED <<callbacks_, is_waiting_for_completion_, info_, initPending,
                 task, reply, shutdown, success, calls, results, dispatched,
                 triggers, prepared, delivered>>
  /\ UNCHANGED outsideCoord

\* Faulty variant: the flag is cleared inside the loop, after the first callback.
CallbackReturn_ClearsFlag ==
  /\ uiPc = "callback"
  /\ callbacks_' = Pop(callbacks_)
  /\ uiPc' = "drain"
  /\ is_waiting_for_completion_' = FALSE
  /\ UNCHANGED <<info_, initPending, task, reply, shutdown, success, calls,
                 invoked, results, dispatched, triggers, prepared, delivered>>
  /\ UNCHANGED infoReads
  /\ queuedLate' = queuedLate \ {Front(callbacks_)}
  /\ UNCHANGED outsideCoord

\* Loop body, second half: Run has returned; callbacks_.pop().
CallbackReturn ==
  /\ uiPc = "callback"
  /\ callbacks_' = Pop(callbacks_)
  /\ uiPc' = "drain"
  /\ UNCHANGED <<is_waiting_for_completion_, info_, initPending, task, reply,
                 shutdown, success, calls, invoked, results, dispatched,
                 triggers, prepared, delivered>>
  /\ UNCHANGED infoReads
  /\ queuedLate' = queuedLate \ {Front(callbacks_)}
  /\ UNCHANGED outsideCoord

\* Faulty variant: the flag is left set when the drain ends.
OnQueryCompletedEnd_KeepsFlag ==
  /\ uiPc = "drain"
  /\ callbacks_ = <<>>
  /\ uiPc' = "idle"
  /\ success' = FALSE
  /\ UNCHANGED <<callbacks_, is_waiting_for_completion_, info_, initPending,
                 task, reply, shutdown, calls, invoked, results, dispatched,
                 triggers, prepared, delivered>>
  /\ UNCHANGED <<infoReads, queuedLate>>
  /\ UNCHANGED outsideCoord

\* Faulty variant: a failed query is posted again when its drain ends.
OnQueryCompletedEnd_Retry ==
  /\ uiPc = "drain"
  /\ callbacks_ = <<>>
  /\ uiPc' = "idle"
  /\ success' = FALSE
  /\ IF ~success /\ ~shutdown /\ dispatched < MaxCalls
       THEN /\ task' = "posted"
            /\ dispatched' = dispatched + 1
            /\ UNCHANGED is_waiting_for_completion_
       ELSE /\ is_waiting_for_completion_' = FALSE
            /\ UNCHANGED <<task, dispatched>>
  /\ UNCHANGED <<callbacks_, info_, initPending, reply, shutdown, calls,
                 invoked, results, triggers, prepared, delivered>>
  /\ UNCHANGED <<infoReads, queuedLate>>
  /\ UNCHANGED outsideCoord

\* The loop test finds the queue empty: is_waiting_for_completion_ = false.
OnQueryCompletedEnd ==
  /\ uiPc = "drain"
  /\ callbacks_ = <<>>
  /\ is_waiting_for_completion_' = FALSE
  /\ uiPc' = "idle"
  /\ success' = FALSE
  /\ UNCHANGED <<callbacks_, info_, initPending, task, reply, shutdown, calls,
                 invoked, results, dispatched, triggers, prepared, delivered>>
  /\ UNCHANGED <<infoReads, queuedLate>>
  /\ UNCHANGED outsideCoord

Next ==
  \/ \E cb \in CallbackIds : StartQueryInfo(cb)
  \/ RunDoQueryInfoCallback
  \/ QueryInfoBegin
  \/ \E r \in BOOLEAN : QueryInfoEnd(r)
  \/ Shutdown
  \/ OnQueryCompletedBegin
  \/ RunCallback
  \/ CallbackReturn
  \/ OnQueryCompletedEnd

Spec == Init /\ [][Next]_vars

-----------------------------------------------------------------------------
\* The shared instance: static LazyInstance<scoped_refptr<...> > provider_.
\* GetInstance holds no lock, so calls made from different threads interleave
\* between its three reads and writes of provider_.

\* The doubles a test may install.
TestProviders == {<<"test", 1>>, <<"test", 2>>}

\* new I(): a production instance, distinct from every earlier one.
NewInstance == <<"prod", constructed + 1>>

\* A GetInstance call is between its first statement and its return.
InGetInstance(t) == giPc[t] # "out"

\* Faulty variant: the null test is missing, every call constructs.
GetInstanceCheck_NoTest(t) ==
  /\ giPc[t] = "out"
  /\ getCalls < MaxGetCalls
  /\ getCalls' = getCalls + 1
  /\ giPc' = [giPc EXCEPT ![t] = "checked_null"]
  /\ raced' = (raced \/ \E u \in Callers \ {t} : InGetInstance(u))
  /\ UNCHANGED <<provider_, constructed, returned, substituted>>
  /\ UNCHANGED <<preinstalled, lateInstall>>
  /\ UNCHANGED outsideRegistry

\* if (!provider_.Get().get())
GetInstanceCheck(t) ==
  /\ giPc[t] = "out"
  /\ getCalls < MaxGetCalls
  /\ getCalls' = getCalls + 1
  /\ giPc' = [giPc EXCEPT ![t] = IF provider_ = NULL THEN "checked_null"
                                                     ELSE "checked_set"]
  /\ raced' = (raced \/ \E u \in Callers \ {t} : InGetInstance(u))
  /\ UNCHANGED <<provider_, constructed, returned, substituted>>
  /\ UNCHANGED <<preinstalled, lateInstall>>
  /\ UNCHANGED outsideRegistry

\* provider_.Get() = new I();
GetInstanceConstruct(t) ==
  /\ giPc[t] = "checked_null"
  /\ provider_' = NewInstance
  /\ constructed' = constructed + 1
  /\ giPc' = [giPc EXCEPT ![t] = "checked_set"]
  /\ UNCHANGED <<returned, getCalls, raced, substituted>>
  /\ UNCHANGED <<preinstalled, lateInstall>>
  /\ UNCHANGED outsideRegistry

\* return static_cast<I*>(provider_.Get().get());
GetInstanceReturn(t) ==
  /\ giPc[t] = "checked_set"
  /\ returned' = Append(returned, provider_)
  /\ giPc' = [giPc EXCEPT ![t] = "out"]
  /\ UNCHANGED <<provider_, constructed, getCalls, raced, substituted>>
  /\ UNCHANGED <<preinstalled, lateInstall>>
  /\ UNCHANGED outsideRegistry

\* Faulty variant: the double is not stored in provider_.
InitializeForTesting_NotStored(p) ==
  /\ p # NULL
  /\ substituted' = TRUE
  /\ preinstalled' = IF getCalls = 0 THEN p ELSE preinstalled
  /\ lateInstall' = (lateInstall \/ getCalls > 0)
  /\ UNCHANGED <<provider_, constructed, giPc, returned, getCalls, raced>>
  /\ UNCHANGED outsideRegistry

\* InitializeForTesting(provider): provider_.Get() = provider.
InitializeForTesting(p) ==
  /\ p # NULL
  /\ provider_' = p
  /\ substituted' = TRUE
  /\ preinstalled' = IF getCalls = 0 THEN p ELSE preinstalled
  /\ lateInstall' = (lateInstall \/ getCalls > 0)
  /\ UNCHANGED <<constructed, giPc, returned, getCalls, raced>>
  /\ UNCHANGED outsideRegistry

RegistryNext ==
  \/ \E t \in Callers : GetInstanceCheck(t)
  \/ \E t \in Callers : GetInstanceConstruct(t)
  \/ \E t \in Callers : GetInstanceReturn(t)
  \/ \E p \in TestProviders : InitializeForTesting(p)

RegistrySpec == Init /\ [][RegistryNext]_vars

-----------------------------------------------------------------------------
\* Vocabulary of the properties.

\* Idle: no drain running, flag clear, queue empty.
Idle == uiPc = "idle" /\ ~is_waiting_for_completion_ /\ callbacks_ = <<>>

CallIds == 1..Len(calls)
InvokedIds == {invoked[k].id : k \in DOMAIN invoked}
Invocations(id) == {k \in DOMAIN invoked : invoked[k].id = id}

\* OnQueryCompleted calls that have run to their end.
drainsDone == delivered - (IF uiPc = "idle" THEN 0 ELSE 1)

\* The drain a call is served by: a call made from inside a callback by the
\* drain that is running, any other call by the next one.
DrainOf(id) ==
  IF calls[id].reentrant THEN calls[id].epoch ELSE calls[id].epoch + 1

\* A burst: the calls made outside a drain between two completions.
BurstCalls(e) == {id \in CallIds : ~calls[id].reentrant /\ calls[id].epoch = e}
Bursts == {calls[id].epoch : id \in {i \in CallIds : ~calls[i].reentrant}}

\* C1: the calls of one burst (made from Idle on, before the completion of the
\* query is delivered) cause exactly one InitializeProvider, at most one
\* dispatch and one execution of QueryInfo, and every callback of the burst
\* that has run was run by the drain of that one query with its result.
C1_Coalescing ==
  /\ triggers = Cardinality(Bursts)
  /\ delivered <= Len(results)
  /\ Len(results) <= started
  /\ started <= dispatched
  /\ dispatched <= triggers
  /\ triggers <= delivered + 1
  /\ \A k \in DOMAIN invoked :
       ~calls[invoked[k].id].reentrant =>
         /\ invoked[k].drain = calls[invoked[k].id].epoch + 1
         /\ invoked[k].success = results[calls[invoked[k].id].epoch + 1]
  /\ \A e \in Bursts : \A i, j \in BurstCalls(e) :
       \A k \in Invocations(i) : \A l \in Invocations(j) :
         invoked[k].success = invoked[l].success

\* A burst of three calls has been served by one query.
C1_Witness ==
  /\ Idle
  /\ \E e \in Bursts : Cardinality(BurstCalls(e) \cap InvokedIds) >= 3
  /\ dispatched = 1 /\ started = 1

\* C2: the callback of a call is run at most once, exactly once when the
\* drain that serves the call has ended, and calls that pass the same callback
\* are not merged: a callback is run once per call that passed it, each time
\* with the result of the query of that drain.
C2_ExactlyOnce ==
  /\ \A id \in CallIds : Cardinality(Invocations(id)) <= 1
  /\ \A id \in CallIds :
       drainsDone >= DrainOf(id) => Cardinality(Invocations(id)) = 1
  /\ \A cb \in CallbackIds :
       Cardinality({k \in DOMAIN invoked : calls[invoked[k].id].cb = cb})
         <= Cardinality({id \in CallIds : calls[id].cb = cb})
  /\ Idle => \A cb \in CallbackIds :
       Cardinality({k \in DOMAIN invoked : calls[invoked[k].id].cb = cb})
         = Cardinality({id \in CallIds : calls[id].cb = cb})
  /\ \A k \in DOMAIN invoked : invoked[k].success = results[invoked[k].drain]

\* The same callback was passed by two calls of one burst and has run twice.
C2_Witness ==
  /\ Idle
  /\ \E i, j \in CallIds :
       /\ i < j
       /\ calls[i].cb = calls[j].cb
       /\ ~calls[i].reentrant /\ ~calls[j].reentrant
       /\ calls[i].epoch = calls[j].epoch
       /\ Cardinality(Invocations(i)) = 1 /\ Cardinality(Invocations(j)) = 1

\* C3: callbacks are run in the order of their StartQueryInfo calls, calls made
\* from inside a callback included: the k-th invocation is that of call k.
C3_Fifo == \A k \in DOMAIN invoked : invoked[k].id = k

\* Three callbacks have run, one of them passed from inside a callback.
C3_Witness ==
  /\ Len(invoked) >= 3
  /\ \E k \in DOMAIN invoked : calls[invoked[k].id].reentrant
  /\ \E k \in DOMAIN invoked : ~calls[invoked[k].id].reentrant /\ k > 1

\* C4: a StartQueryInfo call made from inside a callback only appends to the
\* queue (no InitializeProvider, no post, flag still set), and its callback is
\* run by the drain that is running, with that drain's result, before the
\* drain ends and the flag is cleared.
C4_ReentrantInv ==
  /\ \A k \in DOMAIN invoked :
       calls[invoked[k].id].reentrant =>
         /\ invoked[k].drain = calls[invoked[k].id].epoch
         /\ invoked[k].success = results[calls[invoked[k].id].epoch]
  /\ \A id \in CallIds :
       (calls[id].reentrant /\ id \notin InvokedIds) =>
         /\ uiPc # "idle"
         /\ is_waiting_for_completion_
         /\ delivered = calls[id].epoch
         /\ \E n \in DOMAIN callbacks_ : callbacks_[n] = id

C4_ReentrantStep ==
  (uiPc = "callback" /\ Len(calls') > Len(calls)) =>
    /\ callbacks_' = Append(callbacks_, Len(calls'))
    /\ is_waiting_for_completion_ /\ is_waiting_for_completion_'
    /\ UNCHANGED <<dispatched, triggers, prepared, task, initPending, reply>>

\* C4: the state part and the step part of the reentrant-request property.
C4_Reentrant == []C4_ReentrantInv /\ [][C4_ReentrantStep]_vars

\* A callback passed from inside a callback has run and the drain has ended
\* with one query dispatched.
C4_Witness ==
  /\ Idle
  /\ dispatched = 1
  /\ \E id \in InvokedIds : calls[id].reentrant

\* C5: every callback a drain runs receives the value QueryInfo returned for
\* that drain, so the callbacks of one drain all receive the same value, false
\* when QueryInfo returned false.
C5_UniformOutcome ==
  /\ \A k \in DOMAIN invoked :
       /\ invoked[k].drain \in DOMAIN results
       /\ invoked[k].success = results[invoked[k].drain]
  /\ \A k, l \in DOMAIN invoked :
       invoked[k].drain = invoked[l].drain =>
         invoked[k].success = invoked[l].success

\* QueryInfo returned false and two coalesced callbacks have received false.
C5_Witness ==
  \E k, l \in DOMAIN invoked :
    /\ k # l
    /\ invoked[k].drain = invoked[l].drain
    /\ results[invoked[k].drain] = FALSE
    /\ invoked[k].success = FALSE /\ invoked[l].success = FALSE

-----------------------------------------------------------------------------
\* The scheduling the code relies on: the worker pool runs a task it holds, a
\* running QueryInfo returns, the UI thread runs the tasks posted to it and a
\* running callback returns. Callers and the shutdown are not obliged to act.
Fairness ==
  /\ WF_vars(RunDoQueryInfoCallback)
  /\ WF_vars(QueryInfoBegin)
  /\ WF_vars(\E r \in BOOLEAN : QueryInfoEnd(r))
  /\ WF_vars(OnQueryCompletedBegin)
  /\ WF_vars(RunCallback)
  /\ WF_vars(CallbackReturn)
  /\ WF_vars(OnQueryCompletedEnd)

FairSpec == Init /\ [][Next]_vars /\ Fairness

\* The pool refused the QueryInfo task or deleted it without running it.
PoolFailed == task \in {"refused", "dropped"}

\* C6: when the pool refuses or drops the QueryInfo task, the provider still
\* comes back to Idle with every callback passed so far run.
C6_ResolvedAfterPoolFailure == PoolFailed ~> (Idle /\ CallIds \subseteq InvokedIds)

\* Every call made before the drain that is running or was last run, and
\* every call made from inside it, has had its callback run.
EarlierCyclesInvoked ==
  \A id \in CallIds :
    (calls[id].reentrant \/ calls[id].epoch < delivered) => id \in InvokedIds

\* C7: InitializeProvider is reached only with the flag clear, the queue empty
\* and every callback passed so far run; a QueryInfo task is posted, and
\* begins to run, only when every callback of the earlier cycles has run and
\* no drain is in progress.
C7_Step ==
  /\ triggers' # triggers =>
       /\ ~is_waiting_for_completion_
       /\ callbacks_ = <<>>
       /\ CallIds \subseteq InvokedIds
  /\ dispatched' # dispatched =>
       /\ uiPc = "idle"
       /\ reply = NoReply
       /\ task \notin {"posted", "running"}
       /\ EarlierCyclesInvoked
       /\ \A n \in DOMAIN callbacks_ :
            ~calls[callbacks_[n]].reentrant
            /\ calls[callbacks_[n]].epoch = delivered
  /\ (task = "posted" /\ task' = "running") =>
       /\ uiPc = "idle"
       /\ EarlierCyclesInvoked

\* C7: no step starts a cycle, posts a task or begins QueryInfo while a
\* callback of an earlier cycle is still to be run.
C7_NoCrossOverlap == [][C7_Step]_vars

\* A second query has begun after the callbacks of the first cycle have run.
C7_Witness == started = 2 /\ task = "running" /\ Len(invoked) >= 2

\* C8: between UI-thread tasks an empty queue means a clean provider (flag
\* clear, nothing posted, running or pending) that has executed QueryInfo once
\* per burst so far, and a StartQueryInfo call made then sets the flag and
\* invokes InitializeProvider, whose continuation posts a fresh QueryInfo task.
C8_Inv ==
  (uiPc = "idle" /\ callbacks_ = <<>>) =>
    /\ ~is_waiting_for_completion_
    /\ task = "none" /\ reply = NoReply /\ ~initPending
    /\ started = Cardinality(Bursts)
    /\ Len(results) = started
    /\ dispatched = started
    /\ delivered = started

C8_Step ==
  /\ (uiPc = "idle" /\ callbacks_ = <<>> /\ Len(calls') > Len(calls)) =>
       /\ is_waiting_for_completion_'
       /\ triggers' = triggers + 1
       /\ \/ initPending' /\ task' = "none"
          \/ ~initPending' /\ ~shutdown /\ task' = "posted"
                           /\ dispatched' = dispatched + 1
          \/ ~initPending' /\ shutdown /\ task' = "refused"
  /\ (initPending /\ ~initPending' /\ ~shutdown) =>
       task' = "posted" /\ dispatched' = dispatched + 1

\* C8: a completed drain leaves a clean provider and the next call starts a
\* fresh cycle; k completed cycles are k QueryInfo executions.
C8_IdleReuse == []C8_Inv /\ [][C8_Step]_vars

\* Two bursts, each followed by a completed drain: QueryInfo has run twice.
C8_Witness ==
  /\ Idle
  /\ Cardinality(Bursts) = 2
  /\ started = 2 /\ delivered = 2
  /\ CallIds \subseteq InvokedIds

\* The drain of a failed query has ended.
IdleAfterFailure ==
  /\ uiPc = "idle" /\ callbacks_ = <<>>
  /\ results # <<>> /\ results[Len(results)] = FALSE

\* C9: a QueryInfo task is posted only by a StartQueryInfo call that found the
\* flag clear or by the continuation such a call handed to InitializeProvider;
\* when the drain of a failed query has ended nothing is posted, running or
\* pending, and the next StartQueryInfo call starts a new cycle.
C9_Inv ==
  /\ dispatched <= Cardinality(Bursts)
  /\ IdleAfterFailure =>
       /\ task = "none" /\ reply = NoReply /\ ~initPending
       /\ ~is_waiting_for_completion_
       /\ dispatched = Len(results)

C9_Step ==
  /\ dispatched' # dispatched =>
       \/ Len(calls') > Len(calls) /\ ~is_waiting_for_completion_
       \/ initPending /\ ~initPending'
  /\ (IdleAfterFailure /\ Len(calls') > Len(calls)) =>
       triggers' = triggers + 1 /\ is_waiting_for_completion_'

\* C9: the provider never posts a query on its own, after a failure or
\* otherwise; only a new StartQueryInfo call starts one.
C9_NoRetry == []C9_Inv /\ [][C9_Step]_vars

\* After a failed query was drained a new call has led to a second execution.
C9_Witness ==
  /\ Len(results) = 2
  /\ results[1] = FALSE
  /\ Cardinality(Bursts) = 2

-----------------------------------------------------------------------------
\* Every GetInstance call that has returned, returned the same instance.
SameInstanceReturned ==
  \A i, j \in DOMAIN returned : returned[i] = returned[j]

\* C10 as stated: whatever the interleaving of the GetInstance calls, at most
\* one instance is constructed and every call returns that instance (test
\* substitution aside).
C10_AnyInterleaving ==
  ~substituted => (constructed <= 1 /\ SameInstanceReturned)

\* C10, amended: when no GetInstance call begins while another is in progress
\* (the calls are made from one thread), the instance is constructed by the
\* first call and not before, at most once, and every call returns it (test
\* substitution aside).
C10_SerialCalls ==
  (~substituted /\ ~raced) =>
    /\ constructed <= 1
    /\ getCalls = 0 => constructed = 0
    /\ SameInstanceReturned
    /\ \A i \in DOMAIN returned : returned[i] = <<"prod", 1>>
    /\ returned # <<>> => (constructed = 1 /\ provider_ = <<"prod", 1>>)

\* Three serial calls have returned the one constructed instance.
C10_Witness ==
  /\ ~substituted /\ ~raced
  /\ Len(returned) >= 3
  /\ constructed = 1

\* C11: when InitializeForTesting has installed a double before the first
\* GetInstance call, no GetInstance call constructs a production instance and
\* every call returns a double: the one installed, as long as no other is
\* installed afterwards.
C11_TestSubstitution ==
  preinstalled # NULL =>
    /\ constructed = 0
    /\ \A t \in Callers : giPc[t] # "checked_null"
    /\ \A i \in DOMAIN returned : returned[i] \in TestProviders
    /\ ~lateInstall =>
         /\ provider_ = preinstalled
         /\ \A i \in DOMAIN returned : returned[i] = preinstalled

\* Two GetInstance calls have returned the double installed beforehand.
C11_Witness ==
  /\ preinstalled # NULL
  /\ ~lateInstall
  /\ Len(returned) >= 2
  /\ \A i \in DOMAIN returned : returned[i] = preinstalled

-----------------------------------------------------------------------------
\* C12, state part: InitializeProvider has run once per burst, and
\* PrepareQueryOnUIThread once per InitializeProvider whose continuation has
\* run; no task is posted and no QueryInfo begun without its preparation.
C12_Inv ==
  /\ triggers = Cardinality(Bursts)
  /\ prepared = triggers - (IF initPending THEN 1 ELSE 0)
  /\ dispatched <= prepared
  /\ started <= prepared

\* C12, step part: InitializeProvider is invoked by the StartQueryInfo call
\* that sets the flag, from a UI-thread task of its own;
\* PrepareQueryOnUIThread runs on the UI thread when no task of the cycle is
\* posted yet, and the post follows it in the same task; a call that finds the
\* flag set invokes neither.
C12_Step ==
  /\ triggers' # triggers =>
       /\ triggers' = triggers + 1
       /\ uiPc = "idle"
       /\ ~is_waiting_for_completion_ /\ is_waiting_for_completion_'
       /\ Len(calls') = Len(calls) + 1
  /\ prepared' # prepared =>
       /\ prepared' = prepared + 1
       /\ uiPc = "idle"
       /\ task = "none" /\ reply = NoReply
       /\ task' \in {"posted", "refused"}
  /\ dispatched' # dispatched => prepared' = prepared + 1
  /\ (is_waiting_for_completion_ /\ Len(calls') > Len(calls)) =>
       UNCHANGED <<triggers, prepared, initPending>>

\* C12: the hooks run once per dispatch cycle, before the post, and never for
\* a coalesced request.
C12_HooksOncePerCycle == []C12_Inv /\ [][C12_Step]_vars

\* Two cycles with a coalesced call: each hook has run twice.
C12_Witness ==
  /\ triggers = 2 /\ prepared = 2 /\ dispatched = 2
  /\ Len(calls) >= 3

\* C13: between UI-thread tasks the queue is non-empty exactly when the flag
\* is set; in no state at all is the flag clear with a callback queued, and
\* while a callback runs it is still queued with the flag set.
C13_QueueFlag ==
  /\ uiPc = "idle" => ((callbacks_ # <<>>) <=> is_waiting_for_completion_)
  /\ ~is_waiting_for_completion_ => callbacks_ = <<>>
  /\ uiPc = "callback" => (callbacks_ # <<>> /\ is_waiting_for_completion_)

\* A second cycle waits for its query with two callbacks queued.
C13_Witness ==
  /\ uiPc = "idle"
  /\ is_waiting_for_completion_
  /\ Len(callbacks_) >= 2
  /\ delivered >= 1

-----------------------------------------------------------------------------
\* C14: the worker writes info_ only while the flag is set, the UI thread
\* (completion callbacks included) reads it only while the flag is clear, and
\* no read happens while the worker writes.
C14_ExclusiveAccess ==
  /\ task = "running" => is_waiting_for_completion_
  /\ \A r \in infoReads : ~r.waiting
  /\ \A r \in infoReads : ~r.writing

\* What does hold of info_: QueryInfo runs only with the flag set and outside
\* every drain, so no callback reads info_ while the worker writes it.
InfoNeverReadWhileWritten ==
  /\ task = "running" => (is_waiting_for_completion_ /\ uiPc = "idle")
  /\ \A r \in infoReads : ~r.writing

-----------------------------------------------------------------------------
\* QueryInfo tasks the pool accepted that have neither returned nor been
\* deleted at shutdown.
outstanding ==
  dispatched - Len(results) - (IF task = "dropped" THEN 1 ELSE 0)

\* C15, state part: at most one QueryInfo task is posted or running.
C15_Inv ==
  /\ outstanding \in {0, 1}
  /\ (outstanding = 1) <=> (task \in {"posted", "running"})
  /\ started - Len(results) <= 1

\* C15, step part: a task is posted only when none is posted or running and
\* every earlier one has returned.
C15_Step ==
  dispatched' # dispatched =>
    /\ task = "none"
    /\ outstanding = 0
    /\ dispatched' = dispatched + 1

\* C15: the QueryInfo executions of one provider never overlap.
C15_NoOverlap == []C15_Inv /\ [][C15_Step]_vars

\* The second query runs after the first has returned, two callbacks waiting.
C15_Witness ==
  /\ task = "running"
  /\ dispatched = 2 /\ Len(results) = 1
  /\ Len(callbacks_) >= 2

-----------------------------------------------------------------------------
\* The state of the provider, read off its fields and the UI thread's position.
Phase ==
  IF uiPc # "idle" THEN "Draining"
  ELSE IF ~is_waiting_for_completion_ THEN "Idle"
  ELSE IF initPending THEN "AwaitingPreparation"
  ELSE "AwaitingQuery"

\* C16, state part: what each state means for the queue, the task and the reply.
C16_Inv ==
  /\ Phase = "Idle" =>
       callbacks_ = <<>> /\ task = "none" /\ reply = NoReply /\ ~initPending
  /\ Phase = "AwaitingPreparation" =>
       callbacks_ # <<>> /\ task = "none" /\ reply = NoReply
  /\ Phase = "AwaitingQuery" =>
       /\ callbacks_ # <<>>
       /\ (task = "none") <=> (reply # NoReply)
  /\ Phase = "Draining" =>
       /\ is_waiting_for_completion_ /\ ~initPending
       /\ task = "none" /\ reply = NoReply

\* C16, step part: the only changes of state are Idle to AwaitingPreparation
\* by a StartQueryInfo call (which, when InitializeProvider runs the
\* continuation at once, goes on to AwaitingQuery inside the same call),
\* AwaitingPreparation to AwaitingQuery by the continuation, AwaitingQuery to
\* Draining by OnQueryCompleted, and Draining to Idle at the end of the loop.
C16_Step ==
  /\ Phase' # Phase =>
       \/ /\ Phase = "Idle" /\ Phase' = "AwaitingPreparation"
          /\ Len(calls') = Len(calls) + 1
          /\ triggers' = triggers + 1 /\ prepared' = prepared
       \/ /\ Phase = "Idle" /\ Phase' = "AwaitingQuery"
          /\ Len(calls') = Len(calls) + 1
          /\ triggers' = triggers + 1 /\ prepared' = prepared + 1
       \/ /\ Phase = "AwaitingPreparation" /\ Phase' = "AwaitingQuery"
          /\ prepared' = prepared + 1
       \/ /\ Phase = "AwaitingQuery" /\ Phase' = "Draining"
          /\ reply # NoReply
          /\ delivered' = delivered + 1
       \/ /\ Phase = "Draining" /\ Phase' = "Idle"
          /\ callbacks_ = <<>>
  /\ dispatched' # dispatched =>
       /\ Phase' = "AwaitingQuery"
       /\ \/ Phase = "AwaitingPreparation"
          \/ Phase = "Idle" /\ triggers' = triggers + 1
  /\ delivered' # delivered =>
       Phase = "AwaitingQuery" /\ Phase' = "Draining"

\* C16: the provider moves only along Idle, AwaitingPreparation,
\* AwaitingQuery, Draining, Idle.
C16_StateCycle == []C16_Inv /\ [][C16_Step]_vars

\* After a full cycle the provider waits for a kept continuation again.
C16_Witness ==
  /\ Phase = "AwaitingPreparation"
  /\ delivered >= 1
  /\ Len(invoked) >= 1

-----------------------------------------------------------------------------
\* C17, state part: the flag is set whenever a continuation is kept, a task is
\* posted or running, a reply is pending or a drain is in progress; with the
\* flag clear every callback passed so far has been run and removed.
C17_Inv ==
  /\ (initPending \/ task \in {"posted", "running"} \/ reply # NoReply
        \/ uiPc # "idle") => is_waiting_for_completion_
  /\ ~is_waiting_for_completion_ =>
       callbacks_ = <<>> /\ CallIds \subseteq InvokedIds

\* C17, step part: the flag is set only by a StartQueryInfo call that found it
\* clear, and cleared only where OnQueryCompleted leaves its loop with the
\* queue empty and every callback run.
C17_Step ==
  /\ (~is_waiting_for_completion_ /\ is_waiting_for_completion_') =>
       /\ Len(calls') = Len(calls) + 1
       /\ triggers' = triggers + 1
  /\ (is_waiting_for_completion_ /\ ~is_waiting_for_completion_') =>
       /\ uiPc = "drain" /\ uiPc' = "idle"
       /\ callbacks_ = <<>>
       /\ CallIds \subseteq InvokedIds
  /\ (~is_waiting_for_completion_ /\ Len(calls') > Len(calls)) =>
       is_waiting_for_completion_'

\* C17: the flag is true exactly from the call that starts a cycle to the end
\* of the drain of that cycle.
C17_FlagSpan == []C17_Inv /\ [][C17_Step]_vars

\* The flag has been set, cleared by a drain that ran a reentrant call's
\* callback too, and set again.
C17_Witness ==
  /\ is_waiting_for_completion_
  /\ delivered = 1 /\ uiPc = "idle"
  /\ \E id \in InvokedIds : calls[id].reentrant

-----------------------------------------------------------------------------
\* C18, state part: while an InitializeProvider override keeps the
\* continuation without running it, the flag is set, no task of the cycle is
\* posted and no callback of the cycle has been run: they are all queued.
C18_Inv ==
  initPending =>
    /\ is_waiting_for_completion_
    /\ uiPc = "idle"
    /\ task = "none" /\ reply = NoReply
    /\ dispatched = triggers - 1 /\ dispatched = delivered
    /\ \A id \in BurstCalls(delivered) :
         /\ id \notin InvokedIds
         /\ \E n \in DOMAIN callbacks_ : callbacks_[n] = id
    /\ Len(callbacks_) = Cardinality(BurstCalls(delivered))

\* C18, step part: as long as the continuation is not run, a step changes
\* nothing but the queue, to which a StartQueryInfo call appends its callback;
\* only the continuation itself ends the wait.
C18_Step ==
  /\ (initPending /\ initPending') =>
       /\ UNCHANGED <<is_waiting_for_completion_, task, reply, dispatched,
                      prepared, triggers, invoked, results, delivered, uiPc>>
       /\ IF Len(calls') > Len(calls)
            THEN callbacks_' = Append(callbacks_, Len(calls'))
            ELSE callbacks_' = callbacks_
  /\ (initPending /\ ~initPending') => prepared' = prepared + 1

\* C18: a continuation that is never run leaves the cycle stuck with the flag
\* set, nothing dispatched, nothing invoked and later calls coalesced into it.
C18_StuckPreparation == []C18_Inv /\ [][C18_Step]_vars

\* Three calls wait in a cycle whose continuation has not been run.
C18_Witness ==
  /\ initPending
  /\ Len(callbacks_) >= 3
  /\ dispatched = 0 /\ invoked = <<>>

-----------------------------------------------------------------------------
\* OnQueryCompleted's loop with nothing recorded, so that a callback may call
\* StartQueryInfo from inside the drain any number of times: the queue holds
\* the callbacks themselves, and the query between StartQueryInfo and
\* OnQueryCompleted is left out.

\* StartQueryInfo(callback): callbacks_.push(callback); the flag is set if it
\* was not.
LoopStartQueryInfo(cb) ==
  /\ loopPc \in {"idle", "callback"}
  /\ Len(loopQueue) < MaxLoopQueue
  /\ loopQueue' = Push(loopQueue, cb)
  /\ loopWaiting' = TRUE
  /\ loopReentered' = (loopReentered \/ loopPc = "callback")
  /\ UNCHANGED loopPc
  /\ UNCHANGED outsideLoop

\* OnQueryCompleted is entered with the result of the query.
LoopOnQueryCompletedBegin ==
  /\ loopPc = "idle"
  /\ loopWaiting
  /\ loopPc' = "drain"
  /\ loopReentered' = FALSE
  /\ UNCHANGED <<loopQueue, loopWaiting>>
  /\ UNCHANGED outsideLoop

\* callback = callbacks_.front(); callback.Run(success).
LoopRunCallback ==
  /\ loopPc = "drain"
  /\ loopQueue # <<>>
  /\ loopPc' = "callback"
  /\ UNCHANGED <<loopQueue, loopWaiting, loopReentered>>
  /\ UNCHANGED outsideLoop

\* Faulty variant: the callback that was run is not removed.
LoopCallbackReturn_NoPop ==
  /\ loopPc = "callback"
  /\ loopPc' = "drain"
  /\ UNCHANGED <<loopQueue, loopWaiting, loopReentered>>
  /\ UNCHANGED outsideLoop

\* Run has returned; callbacks_.pop().
LoopCallbackReturn ==
  /\ loopPc = "callback"
  /\ loopQueue' = Pop(loopQueue)
  /\ loopPc' = "drain"
  /\ UNCHANGED <<loopWaiting, loopReentered>>
  /\ UNCHANGED outsideLoop

\* The loop test finds the queue empty: is_waiting_for_completion_ = false.
LoopOnQueryCompletedEnd ==
  /\ loopPc = "drain"
  /\ loopQueue = <<>>
  /\ loopWaiting' = FALSE
  /\ loopPc' = "idle"
  /\ UNCHANGED <<loopQueue, loopReentered>>
  /\ UNCHANGED outsideLoop

LoopNext ==
  \/ \E cb \in CallbackIds : LoopStartQueryInfo(cb)
  \/ LoopOnQueryCompletedBegin
  \/ LoopRunCallback
  \/ LoopCallbackReturn
  \/ LoopOnQueryCompletedEnd

\* The UI thread runs the reply, goes on through the loop, and a callback
\* that is running returns; whether a callback calls StartQueryInfo is its own
\* choice.
LoopFairness ==
  /\ WF_vars(LoopOnQueryCompletedBegin)
  /\ WF_vars(LoopRunCallback)
  /\ WF_vars(LoopCallbackReturn)
  /\ WF_vars(LoopOnQueryCompletedEnd)

LoopSpec == Init /\ [][LoopNext]_vars /\ LoopFairness

\* The provider is back to Idle.
LoopIdle == loopPc = "idle" /\ ~loopWaiting /\ loopQueue = <<>>

\* A StartQueryInfo call made from inside a callback.
LoopReentrantCall ==
  loopPc = "callback" /\ Len(loopQueue') > Len(loopQueue)

\* C19 as stated: every OnQueryCompleted call ends, with the queue empty and
\* the flag clear, whatever the callbacks do.
C19_AlwaysTerminates == (loopPc # "idle") ~> LoopIdle

\* C19, amended: every OnQueryCompleted call ends unless callbacks go on
\* calling StartQueryInfo from inside the drain without end.
C19_TerminatesUnlessReenteredForever ==
  ([]<><<LoopReentrantCall>>_vars) \/ ((loopPc # "idle") ~> LoopIdle)

\* A drain in which a callback called StartQueryInfo has ended.
C19_Witness == LoopIdle /\ loopReentered

-----------------------------------------------------------------------------
\* C20: under the fairness of FairSpec (the kept continuation is run, the pool
\* runs the task, QueryInfo returns, the reply and the drain run), every
\* StartQueryInfo call is followed by the invocation of its callback, unless
\* the pool refused or deleted the task of its cycle: whenever a call is
\* waiting for its callback, a state follows in which every call made by then
\* has had its callback run (invocations are never taken back).
C20_EventuallyInvoked ==
  (~(CallIds \subseteq InvokedIds)) ~> (CallIds \subseteq InvokedIds \/ PoolFailed)

\* The last call the bound allows, made while its query was under way, has
\* had its callback run.
C20_Witness ==
  /\ Len(calls) >= 3
  /\ Len(calls) \in InvokedIds
  /\ ~calls[Len(calls)].reentrant
  /\ Cardinality(BurstCalls(calls[Len(calls)].epoch)) >= 2

-----------------------------------------------------------------------------
\* C21, step part: a StartQueryInfo call that finds the flag set appends its
\* callback behind the ones already queued and changes nothing else: the
\* flag, info_, the task and the tasks posted so far, the pending reply, the
\* kept continuation and the counts of both hooks stay as they were.
C21_Step ==
  (is_waiting_for_completion_ /\ Len(calls') = Len(calls) + 1) =>
    /\ callbacks_' = callbacks_ \o <<Len(calls')>>
    /\ is_waiting_for_completion_' = is_waiting_for_completion_
    /\ info_' = info_
    /\ task' = task /\ dispatched' = dispatched /\ reply' = reply
    /\ initPending' = initPending
    /\ triggers' = triggers /\ prepared' = prepared
    /\ invoked' = invoked /\ delivered' = delivered

\* C21: a StartQueryInfo call made while the flag is set only queues its callback.
C21_CoalescedCallFrame == [][C21_Step]_vars

\* Three calls have shared one query: two of them found the flag set, one
\* while the task was posted and one while it was running or replied.
C21_Witness ==
  /\ Len(calls) = 3 /\ triggers = 1 /\ prepared = 1 /\ dispatched = 1
  /\ callbacks_ = <<1, 2, 3>>
  /\ task = "running"

-----------------------------------------------------------------------------
\* content::PepperFileRefHost (pepper_file_ref_host.cc): a resource host that
\* forwards file operations to a backend after a permission check.

\* The permission sets of webkit/browser/fileapi/file_permission_policy.h.
kReadFilePermissions == {"read"}
kWriteFilePermissions == {"write"}
kCreateFilePermissions == {"create"}

\* What backend_->HasPermissions may answer.
PermissionAnswers == {"PP_OK", "PP_ERROR_NOACCESS", "PP_ERROR_FAILED"}
\* What a backend operation may return.
BackendAnswers == {"PP_OK_COMPLETIONPENDING", "PP_ERROR_FAILED"}
\* What GetResourceHost(new_file_ref) and AsPepperFileRefHost may find: no
\* host, a host of another kind, a file-ref host without or with a backend.
Destinations == {"no_host", "other_host", "file_ref_no_backend", "file_ref"}
\* The resource messages; "Other" is any message the map does not list.
Messages == {"MakeDirectory", "Touch", "Delete", "Rename", "Query",
             "ReadDirectoryEntries", "GetAbsolutePath", "Other"}
FileSystemTypes == {"PP_FILESYSTEMTYPE_LOCALPERSISTENT",
                    "PP_FILESYSTEMTYPE_LOCALTEMPORARY",
                    "PP_FILESYSTEMTYPE_ISOLATED"}

\* The constructor for a path inside a file system: a backend exists only for
\* a valid path, a known render view, a file-system host of the right kind
\* and a local persistent or temporary file system.
PepperFileRefHostInternal ==
  /\ pepperPc = "unconstructed"
  /\ pepperPc' = "constructed"
  /\ \E private \in BOOLEAN : hostPrivate' = private
  /\ \E validPath \in BOOLEAN, idsFound \in BOOLEAN,
        fs_resource_host \in {"NULL", "other_host", "fs_host"},
        type \in FileSystemTypes :
       IF ~validPath \/ ~idsFound \/ fs_resource_host # "fs_host"
         THEN backend_' = "none" /\ fs_type_' = "PP_FILESYSTEMTYPE_INVALID"
         ELSE /\ fs_type_' = type
              /\ backend_' = IF type \in {"PP_FILESYSTEMTYPE_LOCALPERSISTENT",
                                          "PP_FILESYSTEMTYPE_LOCALTEMPORARY"}
                               THEN "internal" ELSE "none"
  /\ UNCHANGED <<pepperMsg, pepperChecks, backendCalls, pepperResult>>
  /\ UNCHANGED outsidePepper

\* The constructor for an external path.
PepperFileRefHostExternal ==
  /\ pepperPc = "unconstructed"
  /\ pepperPc' = "constructed"
  /\ \E private \in BOOLEAN : hostPrivate' = private
  /\ fs_type_' = "PP_FILESYSTEMTYPE_EXTERNAL"
  /\ \E validPath \in BOOLEAN, idsFound \in BOOLEAN :
       backend_' = IF validPath /\ idsFound THEN "external" ELSE "none"
  /\ UNCHANGED <<pepperMsg, pepperChecks, backendCalls, pepperResult>>
  /\ UNCHANGED outsidePepper

\* HasPermissions of a host: the backend's answer, PP_ERROR_FAILED without one.
HasPermissions(hasBackend, answer) ==
  IF hasBackend THEN answer ELSE "PP_ERROR_FAILED"

\* One HasPermissions call as the handlers make it.
Check(host, permissions, rv) ==
  [host |-> host, permissions |-> permissions, rv |-> rv]

\* What a handler did: its checks, its backend calls, its return value.
Outcome(checked, called, result) ==
  [checks |-> checked, calls |-> called, result |-> result]

\* The shape shared by OnMakeDirectory, OnTouch, OnDelete, OnQuery and
\* OnReadDirectoryEntries: rv = HasPermissions(p); if (rv != PP_OK) return rv;
\* return backend_->op(...).
CheckedCall(op, permissions, answer, backendRv) ==
  LET rv == HasPermissions(backend_ # "none", answer)
  IN IF rv # "PP_OK"
       THEN Outcome(<<Check("self", permissions, rv)>>, <<>>, rv)
       ELSE Outcome(<<Check("self", permissions, rv)>>, <<op>>, backendRv)

OnMakeDirectory(answer, backendRv) ==
  CheckedCall("MakeDirectory", kCreateFilePermissions, answer, backendRv)

OnTouch(answer, backendRv) ==
  CheckedCall("Touch", kCreateFilePermissions, answer, backendRv)

\* Faulty variant: Delete is forwarded without a permission check.
OnDelete_Unchecked(answer, backendRv) ==
  Outcome(<<>>, <<"Delete">>, backendRv)

OnDelete(answer, backendRv) ==
  CheckedCall("Delete", kWriteFilePermissions, answer, backendRv)

OnQuery(answer, backendRv) ==
  CheckedCall("Query", kReadFilePermissions, answer, backendRv)

OnReadDirectoryEntries(answer, backendRv) ==
  CheckedCall("ReadDirectoryEntries", kReadFilePermissions, answer, backendRv)

\* OnRename: the check on this host, the destination resolved to a file-ref
\* host, the create check on the destination, then backend_->Rename.
OnRename(answer, dest, destAnswer, backendRv) ==
  LET own == kReadFilePermissions \cup kWriteFilePermissions
      rv == HasPermissions(backend_ # "none", answer)
      rv2 == HasPermissions(dest = "file_ref", destAnswer)
  IN IF rv # "PP_OK"
       THEN Outcome(<<Check("self", own, rv)>>, <<>>, rv)
     ELSE IF dest \in {"no_host", "other_host"}
       THEN Outcome(<<Check("self", own, rv)>>, <<>>, "PP_ERROR_BADRESOURCE")
     ELSE IF rv2 # "PP_OK"
       THEN Outcome(<<Check("self", own, rv),
                      Check("dest", kCreateFilePermissions, rv2)>>, <<>>, rv2)
     ELSE Outcome(<<Check("self", own, rv),
                    Check("dest", kCreateFilePermissions, rv2)>>,
                  <<"Rename">>, backendRv)

\* OnGetAbsolutePath: no HasPermissions call, PERMISSION_PRIVATE of the host.
OnGetAbsolutePath(backendRv) ==
  IF ~hostPrivate
    THEN Outcome(<<>>, <<>>, "PP_ERROR_NOACCESS")
    ELSE Outcome(<<>>, <<"GetAbsolutePath">>, backendRv)

\* The message map of OnResourceMessageReceived.
DispatchMessage(msg, answer, dest, destAnswer, backendRv) ==
  CASE msg = "MakeDirectory" -> OnMakeDirectory(answer, backendRv)
    [] msg = "Touch" -> OnTouch(answer, backendRv)
    [] msg = "Delete" -> OnDelete(answer, backendRv)
    [] msg = "Rename" -> OnRename(answer, dest, destAnswer, backendRv)
    [] msg = "Query" -> OnQuery(answer, backendRv)
    [] msg = "ReadDirectoryEntries" -> OnReadDirectoryEntries(answer, backendRv)
    [] msg = "GetAbsolutePath" -> OnGetAbsolutePath(backendRv)
    [] OTHER -> Outcome(<<>>, <<>>, "PP_ERROR_FAILED")

\* OnResourceMessageReceived(msg, context).
OnResourceMessageReceived(msg) ==
  /\ pepperPc = "constructed"
  /\ \E answer \in PermissionAnswers, dest \in Destinations,
        destAnswer \in PermissionAnswers, backendRv \in BackendAnswers :
       LET out == IF backend_ = "none"
                    THEN Outcome(<<>>, <<>>, "PP_ERROR_FAILED")
                    ELSE DispatchMessage(msg, answer, dest, destAnswer, backendRv)
       IN /\ pepperChecks' = out.checks
          /\ backendCalls' = out.calls
          /\ pepperResult' = out.result
  /\ pepperMsg' = msg
  /\ UNCHANGED <<pepperPc, backend_, fs_type_, hostPrivate>>
  /\ UNCHANGED outsidePepper

PepperNext ==
  \/ PepperFileRefHostInternal
  \/ PepperFileRefHostExternal
  \/ \E msg \in Messages : OnResourceMessageReceived(msg)

PepperSpec == Init /\ [][PepperNext]_vars

\* The permission set each checked operation asks HasPermissions for.
RequiredPermissions(op) ==
  CASE op \in {"MakeDirectory", "Touch"} -> kCreateFilePermissions
    [] op = "Delete" -> kWriteFilePermissions
    [] op = "Rename" -> kReadFilePermissions \cup kWriteFilePermissions
    [] op \in {"Query", "ReadDirectoryEntries"} -> kReadFilePermissions

CheckedOperations == {"MakeDirectory", "Touch", "Delete", "Rename", "Query",
                      "ReadDirectoryEntries"}

\* The HasPermissions call was made for the message and returned PP_OK.
Passed(host, permissions) ==
  \E k \in DOMAIN pepperChecks :
    pepperChecks[k] = Check(host, permissions, "PP_OK")

\* C22: a message reaches at most the backend operation of its own name; a
\* checked operation is called only after HasPermissions returned PP_OK for
\* its permission set, Rename also only after the create check on the
\* resolved destination returned PP_OK, GetAbsolutePath only with
\* PERMISSION_PRIVATE; a host without a backend answers every message with
\* PP_ERROR_FAILED and calls nothing.
C22_CheckedDispatch ==
  /\ Len(backendCalls) <= 1
  /\ \A n \in DOMAIN backendCalls :
       LET op == backendCalls[n]
       IN /\ op = pepperMsg
          /\ backend_ # "none"
          /\ op \in CheckedOperations => Passed("self", RequiredPermissions(op))
          /\ op = "Rename" => Passed("dest", kCreateFilePermissions)
          /\ op = "GetAbsolutePath" => hostPrivate
          /\ op \in CheckedOperations \cup {"GetAbsolutePath"}
  /\ (backend_ = "none" /\ pepperMsg # "none") =>
       /\ pepperResult = "PP_ERROR_FAILED"
       /\ backendCalls = <<>>
       /\ pepperChecks = <<>>

\* A Rename has reached the backend after both of its checks.
C22_Witness ==
  /\ pepperMsg = "Rename"
  /\ backendCalls = <<"Rename">>
  /\ Len(pepperChecks) = 2

-----------------------------------------------------------------------------
\* diagnostics::SqliteIntegrityTest (sqlite_diagnostics.cc): ExecuteImpl opens
\* a database file, runs PRAGMA integrity_check and records one outcome.
\* What the file system and sql::Connection answer, and whether the
\* connection runs the error callback, are inputs.

\* RecordOutcome(outcome_code, ..., result) and the two calls that wrap it.
RecordOutcome(code, result) == [code |-> code, result |-> result, count |-> 0]
RecordFailure(code) == RecordOutcome(code, "failure")
RecordSuccess == RecordOutcome("DIAG_SUCCESS", "success")
\* RecordFailure(DIAG_SQLITE_DB_CORRUPTED, "... <errors> errors").
RecordCorrupted(n) ==
  [code |-> "DIAG_SQLITE_DB_CORRUPTED", result |-> "failure", count |-> n]

\* The values a row of PRAGMA integrity_check may hold.
RowValues == {"ok", "row 1 missing from index"}
\* What GetUniqueStatement may leave behind: a valid statement, or none with
\* database.GetErrorCode() SQLITE_BUSY or another code.
StatementStates == {"valid", "SQLITE_BUSY", "SQLITE_ERROR"}

\* ExecuteImpl is over: one more outcome, the return value.
Return(outcome, value) ==
  /\ outcomes' = Append(outcomes, outcome)
  /\ sqlReturn' = <<value>>
  /\ sqlPc' = "done"

\* SqliteIntegrityTest(critical, id, title, db_path).
SqliteIntegrityTest(critical) ==
  /\ sqlPc = "unconstructed"
  /\ sqlPc' = "constructed"
  /\ critical_' = critical
  /\ UNCHANGED <<errors, has_error_, outcomes, sqlReturn, pathExisted,
                 openedOk, statementState, rowsSeen>>
  /\ UNCHANGED outsideSql

\* ExecuteImpl up to int errors = 0: the path, base::PathExists(path).
ExecuteImplPathExists ==
  /\ sqlPc = "constructed"
  /\ \E exists \in BOOLEAN :
       /\ pathExisted' = exists
       /\ IF ~exists
            THEN IF critical_
                   THEN Return(RecordOutcome("DIAG_SQLITE_FILE_NOT_FOUND",
                                             "TEST_FAIL_CONTINUE"), TRUE)
                   ELSE Return(RecordOutcome("DIAG_SQLITE_FILE_NOT_FOUND_OK",
                                             "TEST_OK"), TRUE)
            ELSE sqlPc' = "open" /\ UNCHANGED <<outcomes, sqlReturn>>
  /\ errors' = 0
  /\ UNCHANGED <<critical_, has_error_, openedOk, statementState, rowsSeen>>
  /\ UNCHANGED outsideSql

\* A new ErrorRecorder, database.Open(path), the recorder looked at.
DatabaseOpen ==
  /\ sqlPc = "open"
  /\ \E opened \in BOOLEAN, callbackRun \in BOOLEAN :
       /\ openedOk' = opened
       /\ has_error_' = callbackRun
       /\ IF ~opened
            THEN Return(RecordFailure("DIAG_SQLITE_CANNOT_OPEN_DB"), TRUE)
          ELSE IF callbackRun
            THEN Return(RecordFailure("DIAG_SQLITE_ERROR_HANDLER_CALLED"), TRUE)
          ELSE sqlPc' = "prepare" /\ UNCHANGED <<outcomes, sqlReturn>>
  /\ UNCHANGED <<critical_, errors, pathExisted, statementState, rowsSeen>>
  /\ UNCHANGED outsideSql

\* database.GetUniqueStatement("PRAGMA integrity_check;"), the recorder looked
\* at, then statement.is_valid() and database.GetErrorCode().
GetUniqueStatement ==
  /\ sqlPc = "prepare"
  /\ \E state \in StatementStates, callbackRun \in BOOLEAN :
       /\ statementState' = state
       /\ has_error_' = (has_error_ \/ callbackRun)
       /\ IF has_error_'
            THEN Return(RecordFailure("DIAG_SQLITE_ERROR_HANDLER_CALLED"), TRUE)
          ELSE IF state = "SQLITE_BUSY"
            THEN Return(RecordFailure("DIAG_SQLITE_DB_LOCKED"), FALSE)
          ELSE IF state # "valid"
            THEN Return(RecordFailure("DIAG_SQLITE_PRAGMA_FAILED"), FALSE)
          ELSE sqlPc' = "step" /\ UNCHANGED <<outcomes, sqlReturn>>
  /\ UNCHANGED <<critical_, errors, pathExisted, openedOk, rowsSeen>>
  /\ UNCHANGED outsideSql

\* Faulty variant: every row is counted as an error.
StatementStepRow_CountsAll(row) ==
  /\ sqlPc = "step"
  /\ Len(rowsSeen) < MaxRows
  /\ rowsSeen' = Append(rowsSeen, row)
  /\ errors' = errors + 1
  /\ UNCHANGED <<sqlPc, critical_, has_error_, outcomes, sqlReturn,
                 pathExisted, openedOk, statementState>>
  /\ UNCHANGED outsideSql

\* statement.Step() returns true: one pass of the loop body.
StatementStepRow(row) ==
  /\ sqlPc = "step"
  /\ Len(rowsSeen) < MaxRows
  /\ rowsSeen' = Append(rowsSeen, row)
  /\ errors' = IF row # "ok" THEN errors + 1 ELSE errors
  /\ UNCHANGED <<sqlPc, critical_, has_error_, outcomes, sqlReturn,
                 pathExisted, openedOk, statementState>>
  /\ UNCHANGED outsideSql

\* statement.Step() returns false, at the last row or on an error; the
\* recorder is looked at, then errors.
StatementStepDone ==
  /\ sqlPc = "step"
  /\ \E callbackRun \in BOOLEAN :
       /\ has_error_' = (has_error_ \/ callbackRun)
       /\ IF has_error_'
            THEN Return(RecordFailure("DIAG_SQLITE_ERROR_HANDLER_CALLED"), TRUE)
          ELSE IF errors # 0
            THEN Return(RecordCorrupted(errors), TRUE)
          ELSE Return(RecordSuccess, TRUE)
  /\ UNCHANGED <<critical_, errors, pathExisted, openedOk, statementState,
                 rowsSeen>>
  /\ UNCHANGED outsideSql

SqlNext ==
  \/ \E critical \in BOOLEAN : SqliteIntegrityTest(critical)
  \/ ExecuteImplPathExists
  \/ DatabaseOpen
  \/ GetUniqueStatement
  \/ \E row \in RowValues : StatementStepRow(row)
  \/ StatementStepDone

SqlSpec == Init /\ [][SqlNext]_vars

\* The rows other than "ok" that the statement delivered.
BadRows == Cardinality({k \in DOMAIN rowsSeen : rowsSeen[k] # "ok"})

\* Parts of C23 that do not depend on the error callback: exactly one outcome
\* once ExecuteImpl has returned and none before; the outcome of a missing
\* file and of a failed open; when success is recorded; when false is returned.
OutcomeCommon ==
  /\ Len(outcomes) = (IF sqlPc = "done" THEN 1 ELSE 0)
  /\ (sqlPc = "done") = (sqlReturn # <<>>)
  /\ sqlPc = "done" =>
       LET o == outcomes[1]
       IN /\ ~pathExisted =>
               o = IF critical_
                     THEN RecordOutcome("DIAG_SQLITE_FILE_NOT_FOUND",
                                        "TEST_FAIL_CONTINUE")
                     ELSE RecordOutcome("DIAG_SQLITE_FILE_NOT_FOUND_OK",
                                        "TEST_OK")
          /\ (pathExisted /\ ~openedOk) =>
               o = RecordFailure("DIAG_SQLITE_CANNOT_OPEN_DB")
          /\ o.result = "success" =>
               /\ pathExisted /\ openedOk /\ statementState = "valid"
               /\ ~has_error_
               /\ BadRows = 0
          /\ sqlReturn = <<FALSE>> =>
               statementState \in {"SQLITE_BUSY", "SQLITE_ERROR"}

\* C23 as stated: one outcome on every path; a missing file, a failed open,
\* SQLITE_BUSY on preparing the pragma and rows other than "ok" each yield
\* their outcome, the last with the count of such rows; success only for an
\* existing, opened file, a valid statement, no recorded error and rows all
\* "ok"; false returned only when the statement could not be prepared.
C23_OutcomePerInput ==
  /\ OutcomeCommon
  /\ sqlPc = "done" =>
       /\ statementState = "SQLITE_BUSY" =>
            outcomes[1] = RecordFailure("DIAG_SQLITE_DB_LOCKED")
       /\ BadRows > 0 => outcomes[1] = RecordCorrupted(BadRows)

\* C23 amended: as C23, but database-locked and corrupted are the outcomes
\* only when the error callback has not run; once it has run on an opened
\* database the outcome is the error handler's, and true is returned.
C23_OutcomeUnlessHandlerCalled ==
  /\ OutcomeCommon
  /\ sqlPc = "done" =>
       /\ (statementState = "SQLITE_BUSY" /\ ~has_error_) =>
            outcomes[1] = RecordFailure("DIAG_SQLITE_DB_LOCKED")
       /\ (BadRows > 0 /\ ~has_error_) =>
            outcomes[1] = RecordCorrupted(BadRows)
       /\ (openedOk /\ has_error_) =>
            /\ outcomes[1] = RecordFailure("DIAG_SQLITE_ERROR_HANDLER_CALLED")
            /\ sqlReturn = <<TRUE>>

\* A database with two bad rows among three has been reported corrupted.
C23_Witness ==
  /\ sqlPc = "done"
  /\ Len(rowsSeen) = 3
  /\ outcomes = <<RecordCorrupted(2)>>

-----------------------------------------------------------------------------
\* C24, state part: every invocation happened in a drain, the drain of a
\* QueryInfo execution that had returned; a callback passed outside a drain
\* was run in a drain entered after its call.
C24_Inv ==
  \A k \in DOMAIN invoked :
    /\ invoked[k].drain \in 1..delivered
    /\ invoked[k].drain <= Len(results)
    /\ ~calls[invoked[k].id].reentrant =>
         calls[invoked[k].id].epoch < invoked[k].drain

\* C24, step part: a StartQueryInfo call runs no callback; a callback is run
\* only at the loop of OnQueryCompleted, entered with the result of an
\* execution that has returned, and the callback run is one whose call was
\* made before this step.
C24_Step ==
  /\ Len(calls') > Len(calls) => invoked' = invoked
  /\ invoked' # invoked =>
       /\ uiPc = "drain" /\ uiPc' = "callback"
       /\ delivered >= 1 /\ Len(results) >= delivered
       /\ Len(invoked') = Len(invoked) + 1
       /\ invoked'[Len(invoked')].id \in CallIds
       /\ invoked'[Len(invoked')].drain = delivered

\* C24: callbacks are invoked only from inside OnQueryCompleted, after the
\* QueryInfo execution of their cycle has returned and been delivered.
C24_InvokedOnlyInDrain == []C24_Inv /\ [][C24_Step]_vars

\* A callback of the second cycle is being run.
C24_Witness ==
  /\ uiPc = "callback"
  /\ delivered = 2
  /\ invoked[Len(invoked)].drain = 2
  /\ ~calls[invoked[Len(invoked)].id].reentrant

-----------------------------------------------------------------------------
\* The callback OnQueryCompleted is running, and the call that passed it.
RunningId == Front(callbacks_)

\* When each callback is run, state part: a callback passed from inside a
\* callback is run in the drain it was passed in, whose query had returned
\* before; one passed outside a drain is run in the next drain entered.
ServedByNextDrain ==
  /\ uiPc = "callback" =>
       IF calls[RunningId].reentrant
         THEN calls[RunningId].epoch = delivered /\ Len(results) >= delivered
         ELSE calls[RunningId].epoch = delivered - 1
  /\ \A id \in queuedLate :
       /\ \E n \in DOMAIN callbacks_ : callbacks_[n] = id
       /\ ~calls[id].reentrant

\* C25 as stated: the callback of a call made outside a drain is never run
\* with the outcome of a QueryInfo execution that had returned before the
\* call; only a call made inside a drain gets such an outcome.
C25_AlwaysFresh ==
  /\ ServedByNextDrain
  /\ uiPc = "callback" => RunningId \notin queuedLate

\* C25 amended, step part: a call made outside a drain is made either before
\* the execution that will serve it has returned, or while the result of
\* that execution waits on the UI thread for OnQueryCompleted to be run.
C25_Step ==
  (Len(calls') > Len(calls) /\ uiPc = "idle") =>
    \/ Len(results) = delivered /\ Len(calls') \notin queuedLate'
    \/ /\ Len(results) = delivered + 1
       /\ reply # NoReply
       /\ is_waiting_for_completion_
       /\ Len(calls') \in queuedLate'

\* C25 amended: a callback passed outside a drain receives the outcome of a
\* QueryInfo execution that returns after the call, unless the call was made
\* between the return of QueryInfo and the run of OnQueryCompleted.
C25_FreshUnlessReplyPending == []ServedByNextDrain /\ [][C25_Step]_vars

\* The callback of a call made while the result waited for delivery is run.
C25_Witness ==
  /\ uiPc = "callback"
  /\ RunningId \in queuedLate

-----------------------------------------------------------------------------
\* AutoLock (sdk_util/auto_lock.h): locks a SimpleLock's mutex for a scope.

\* pthread_mutex_unlock(lock_) called by thread t from `site`.
PthreadMutexUnlock(t, site) ==
  /\ mutexOwner' = "none"
  /\ unlockCalls' = [unlockCalls EXCEPT ![t] = Append(@, site)]

\* AutoLock(lock): lock_ = lock.mutex(); pthread_mutex_lock(lock_), which
\* returns once the mutex is free.
AutoLockConstruct(t) ==
  /\ autoPc[t] = "unconstructed"
  /\ mutexOwner = "none"
  /\ lock_' = [lock_ EXCEPT ![t] = <<"mutex">>]
  /\ mutexOwner' = t
  /\ lockCalls' = [lockCalls EXCEPT ![t] = @ + 1]
  /\ autoPc' = [autoPc EXCEPT ![t] = "alive"]
  /\ UNCHANGED <<unlockCalls, unlocksInvoked>>
  /\ UNCHANGED outsideAutoLock

\* Faulty variant: Unlock() leaves lock_ set.
AutoLockUnlock_KeepsPointer(t) ==
  /\ autoPc[t] = "alive"
  /\ unlocksInvoked[t] < MaxUnlocks
  /\ unlocksInvoked' = [unlocksInvoked EXCEPT ![t] = @ + 1]
  /\ IF lock_[t] # NULL
       THEN PthreadMutexUnlock(t, <<"Unlock", unlocksInvoked[t] + 1>>)
       ELSE UNCHANGED <<mutexOwner, unlockCalls>>
  /\ UNCHANGED <<autoPc, lock_, lockCalls>>
  /\ UNCHANGED outsideAutoLock

\* Unlock(): if (lock_) pthread_mutex_unlock(lock_); lock_ = NULL.
AutoLockUnlock(t) ==
  /\ autoPc[t] = "alive"
  /\ unlocksInvoked[t] < MaxUnlocks
  /\ unlocksInvoked' = [unlocksInvoked EXCEPT ![t] = @ + 1]
  /\ IF lock_[t] # NULL
       THEN PthreadMutexUnlock(t, <<"Unlock", unlocksInvoked[t] + 1>>)
       ELSE UNCHANGED <<mutexOwner, unlockCalls>>
  /\ lock_' = [lock_ EXCEPT ![t] = NULL]
  /\ UNCHANGED <<autoPc, lockCalls>>
  /\ UNCHANGED outsideAutoLock

\* ~AutoLock(): if (lock_) pthread_mutex_unlock(lock_).
AutoLockDestruct(t) ==
  /\ autoPc[t] = "alive"
  /\ autoPc' = [autoPc EXCEPT ![t] = "destroyed"]
  /\ IF lock_[t] # NULL
       THEN PthreadMutexUnlock(t, <<"destructor">>)
       ELSE UNCHANGED <<mutexOwner, unlockCalls>>
  /\ UNCHANGED <<lock_, lockCalls, unlocksInvoked>>
  /\ UNCHANGED outsideAutoLock

AutoLockNext ==
  \/ \E t \in LockThreads : AutoLockConstruct(t)
  \/ \E t \in LockThreads : AutoLockUnlock(t)
  \/ \E t \in LockThreads : AutoLockDestruct(t)

AutoLockSpec == Init /\ [][AutoLockNext]_vars

\* C26: an AutoLock locks the mutex once, when it is constructed; while it is
\* alive the mutex has been unlocked once if Unlock() has been called, by the
\* first such call, and not at all otherwise; after its destruction the mutex
\* has been unlocked exactly once, by the first Unlock() call or, without
\* one, by the destructor. The mutex is held by a thread exactly from its
\* lock call to its unlock call.
C26_UnlockedExactlyOnce ==
  \A t \in LockThreads :
    /\ lockCalls[t] = (IF autoPc[t] = "unconstructed" THEN 0 ELSE 1)
    /\ autoPc[t] = "unconstructed" => unlockCalls[t] = <<>>
    /\ autoPc[t] = "alive" =>
         unlockCalls[t] = (IF unlocksInvoked[t] > 0 THEN <<<<"Unlock", 1>>>>
                                                    ELSE <<>>)
    /\ autoPc[t] = "destroyed" =>
         unlockCalls[t] = (IF unlocksInvoked[t] > 0 THEN <<<<"Unlock", 1>>>>
                                                    ELSE <<<<"destructor">>>>)
    /\ (mutexOwner = t) = (lockCalls[t] = 1 /\ unlockCalls[t] = <<>>)

\* An AutoLock on which Unlock() was called several times has been destroyed
\* while another thread holds the mutex.
C26_Witness ==
  \E t \in LockThreads :
    /\ autoPc[t] = "destroyed"
    /\ unlocksInvoked[t] >= 2
    /\ mutexOwner \notin {"none", t}

====
